---- MODULE Spec2Model ----
(***************************************************************************)
(* Flask Journal API: the users table, the entries table, the bearer-token *)
(* service, the signed time-limited tokens (itsdangerous) and the admin    *)
(* console, as a state machine over the persistent store.                  *)
(*                                                                         *)
(* A request handler is one action: authentication, the queries that load *)
(* rows into the SQLAlchemy session, the attribute assignments and         *)
(* database.session.commit(), which flushes the session (INSERT / UPDATE   *)
(* of the changed columns / DELETE) in one transaction.  The handlers of   *)
(* concurrent workers are split at the commit (the *_add / *_commit        *)
(* actions).  The clock is in seconds.                                     *)
(***************************************************************************)
EXTENDS Integers, FiniteSets, Sequences, TLC

\* ------------------------------------------------------------------ bounds
MaxTime == 5400
MaxTokenTime == 3600
TickStep == 1800
MaxUsers == 3
MaxId == 4
MaxTokens == 2
MaxEntries == 3
MaxEntryId == 3
MaxMail == 1
NumSalts == 1

\* ------------------------------------------------------- program constants
\* timedelta(minutes=60) in generate_auth_token
token_minutes == 60
\* max_age=3600 in confirm_email and process_password_reset_token
max_age == 3600
\* Python's None
None == -1

SECRET_KEY == "SECRET_KEY"
email_confirmation_salt == "email-confirmation-salt"
password_reset_salt == "password-reset-salt"

\* ------------------------------------------------------------ input sets
Emails == {"pkennedy@hey.com", "patkennedy79@gmail.com", "admin@x.com"}
Passwords == {"FlaskIsAwesome123", "FlaskIsTheBest456"}
Salts == 1..NumSalts
RaceWorkers == {1, 2}
Texts == {"Had coffee", "Had tea"}

VARIABLES
    now,        \* datetime.utcnow() / time.time(), in seconds
    users,      \* table users: id -> row
    entries,    \* table entries: id -> row
    req,        \* worker -> the request it is handling (its session's objects)
    login,      \* flask_login session cookie of the admin browser: user id or None
    next_token, \* number of tokens secrets.token_urlsafe() has produced
    mail,       \* signed links delivered by mail.send
    last,       \* response of the request that finished last
    issued,     \* history: token -> the user it was issued to, and when
    revoked,    \* history: the tokens revoke_auth_token was called on, and by whom
    used,       \* history: the links confirm_email has confirmed an address with
    demo_entries \* the list demo_entries of the demo blueprint

vars == <<now, users, entries, req, login, next_token, mail, last, issued, revoked, used,
          demo_entries>>

Idle == [op |-> "idle"]

\* ---------------------------------------------------------- small helpers
SetMax(S) == CHOOSE x \in S : \A y \in S : y <= x

\* INTEGER PRIMARY KEY of SQLite: the next rowid is the largest one plus one
NextId(table) == IF DOMAIN table = {} THEN 1 ELSE SetMax(DOMAIN table) + 1

Insert(table, id, row) == [i \in DOMAIN table \cup {id} |-> IF i = id THEN row ELSE table[i]]

Delete(table, ids) == [i \in DOMAIN table \ ids |-> table[i]]

\* ------------------------------------------------------- password hasher
\* werkzeug generate_password_hash: a random salt, and a digest of salt and
\* plaintext that is kept with the salt
generate_password_hash(password_plaintext, salt) ==
    [salt |-> salt, digest |-> <<salt, password_plaintext>>]

\* werkzeug check_password_hash: recompute the digest with the stored salt
check_password_hash(pwhash, password_plaintext) ==
    pwhash.digest = <<pwhash.salt, password_plaintext>>

\* ------------------------------------------------------------ class User
\* User.__init__ that makes every user an Admin
User_admin(email, password_plaintext, user_type, salt, t) ==
    [email |-> email,
     password_hashed |-> generate_password_hash(password_plaintext, salt),
     auth_token |-> None,
     auth_token_expiration |-> None,
     registered_on |-> t,
     email_confirmation_sent_on |-> t,
     email_confirmed |-> FALSE,
     email_confirmed_on |-> None,
     user_type |-> "Admin"]

\* User.__init__
User(email, password_plaintext, user_type, salt, t) ==
    [email |-> email,
     password_hashed |-> generate_password_hash(password_plaintext, salt),
     auth_token |-> None,
     auth_token_expiration |-> None,
     registered_on |-> t,
     email_confirmation_sent_on |-> t,
     email_confirmed |-> FALSE,
     email_confirmed_on |-> None,
     user_type |-> user_type]

is_password_correct(user, password_plaintext) ==
    check_password_hash(user.password_hashed, password_plaintext)

\* set_password that keeps the stored hash
set_password_kept(user, password_plaintext, salt) == user

set_password(user, password_plaintext, salt) ==
    [user EXCEPT !.password_hashed = generate_password_hash(password_plaintext, salt)]

timedelta_minutes(m) == m * 60

\* generate_auth_token that keeps a token the user already has
generate_auth_token_reused(user, token, t) ==
    [user EXCEPT !.auth_token = IF @ = None THEN token ELSE @,
                 !.auth_token_expiration = t + timedelta_minutes(token_minutes)]

\* generate_auth_token with a window one minute longer
generate_auth_token_longer(user, token, t) ==
    [user EXCEPT !.auth_token = token,
                 !.auth_token_expiration = t + timedelta_minutes(token_minutes + 1)]

generate_auth_token(user, token, t) ==
    [user EXCEPT !.auth_token = token,
                 !.auth_token_expiration = t + timedelta_minutes(token_minutes)]

\* revoke_auth_token that leaves the expiration alone
revoke_auth_token_skipped(user, t) == user

revoke_auth_token(user, t) == [user EXCEPT !.auth_token_expiration = t]

\* confirm_email_address that also makes the user an Admin
confirm_email_address_promoting(user, t) ==
    [user EXCEPT !.email_confirmed = TRUE, !.email_confirmed_on = t, !.user_type = "Admin"]

confirm_email_address(user, t) ==
    [user EXCEPT !.email_confirmed = TRUE, !.email_confirmed_on = t]

revoke_email_address_confirmation(user) ==
    [user EXCEPT !.email_confirmed = FALSE, !.email_confirmed_on = None]

confirmation_email_link_sent(user, t) ==
    [user EXCEPT !.email_confirmation_sent_on = t]

\* User.query.filter_by(auth_token=...).first(): the row of lowest id
first(ids) == IF ids = {} THEN None ELSE CHOOSE i \in ids : \A j \in ids : i <= j

filter_by_auth_token(tbl, auth_token) == {i \in DOMAIN tbl : tbl[i].auth_token = auth_token}

filter_by_email(tbl, email) == {i \in DOMAIN tbl : tbl[i].email = email}

\* User.verify_auth_token: id of the user, None when there is none or the
\* token has expired ("error" for the comparison of None with a datetime)
verify_auth_token(tbl, auth_token, t) ==
    LET user == first(filter_by_auth_token(tbl, auth_token))
    IN  IF user = None THEN None
        ELSE IF tbl[user].auth_token_expiration = None THEN None
        ELSE IF tbl[user].auth_token_expiration > t THEN user
        ELSE None

\* ------------------------------------------------- session.commit(): UPDATE
\* SQLAlchemy's unit of work writes the columns whose value differs from
\* the loaded one, to the row with the object's primary key
Columns == {"email", "password_hashed", "auth_token", "auth_token_expiration",
            "registered_on", "email_confirmation_sent_on", "email_confirmed",
            "email_confirmed_on", "user_type"}

flush_update(row, loaded, obj) ==
    [c \in Columns |-> IF obj[c] # loaded[c] THEN obj[c] ELSE row[c]]

commit_update(tbl, id, loaded, obj) ==
    [tbl EXCEPT ![id] = flush_update(tbl[id], loaded, obj)]

\* -------------------------------------- itsdangerous URLSafeTimedSerializer
\* the HMAC of key, salt, payload and timestamp
signature(key, salt, payload, ts) == <<key, salt, payload, ts>>

\* dumps(payload, salt=...): payload, issue time (whole seconds), signature
dumps(payload, salt, t) ==
    [payload |-> payload, ts |-> t, sig |-> signature(SECRET_KEY, salt, payload, t)]

\* loads that checks the signature without the salt
loads_unsalted(token, salt, age_limit, t) ==
    IF \A any \in {email_confirmation_salt, password_reset_salt} :
          token.sig # signature(SECRET_KEY, any, token.payload, token.ts)
    THEN "BadSignature"
    ELSE IF t - token.ts > age_limit THEN "SignatureExpired"
    ELSE token.payload

\* loads that never expires a token
loads_unaged(token, salt, age_limit, t) ==
    IF token.sig # signature(SECRET_KEY, salt, token.payload, token.ts)
    THEN "BadSignature"
    ELSE token.payload

\* loads(token, salt=..., max_age=...): the payload, or the exception raised.
\* SignatureExpired is a subclass of BadSignature.
loads(token, salt, age_limit, t) ==
    IF token.sig # signature(SECRET_KEY, salt, token.payload, token.ts)
    THEN "BadSignature"
    ELSE IF t - token.ts > age_limit THEN "SignatureExpired"
    ELSE token.payload

BadSignature == {"BadSignature", "SignatureExpired"}

generate_confirmation_email(user_email, t) == dumps(user_email, email_confirmation_salt, t)

generate_password_reset_email(user_email, t) == dumps(user_email, password_reset_salt, t)

\* a link whose payload was edited after signing
Tampered(token) == {[token EXCEPT !.payload = e] : e \in Emails \ {token.payload}}

\* the links a client can present: the delivered ones and edited copies
Links == mail \cup UNION {Tampered(m) : m \in mail}

\* Thread(target=send_email).start(): mail.send(message) delivers the
\* message or fails (delivered = FALSE); a full mailbox is emptied first
send_email(message, delivered) ==
    IF ~delivered THEN mail
    ELSE IF Cardinality(mail \cup {message}) <= MaxMail THEN mail \cup {message}
    ELSE {message}

\* ------------------------------------------------------ demo_api fixture
\* the list demo_entries as the module defines it (times as ISO strings)
demo_entries_loaded ==
    <<[id |-> 1, entry |-> "I went for a great walk at the park today.", user_id |-> 0,
       created_on |-> "2022-07-01T04:29:50.307527",
       last_edited_on |-> "2022-07-01T04:29:50.307527"],
      [id |-> 2, entry |-> "I tried a new pasta recipe for dinner tonight.", user_id |-> 0,
       created_on |-> "2022-07-02T06:29:50.307527",
       last_edited_on |-> "2022-07-02T06:29:50.307527"],
      [id |-> 3, entry |-> "There was a great new movie on Netflix that I watched tonight.",
       user_id |-> 0,
       created_on |-> "2022-07-02T07:29:50.307527",
       last_edited_on |-> "2022-07-02T07:29:50.307527"],
      [id |-> 4,
       entry |-> "There was so much fresh fruit at the grocery store, so I made a great fruit salad with dinner.",
       user_id |-> 0,
       created_on |-> "2022-07-02T14:29:50.307527",
       last_edited_on |-> "2022-07-02T14:29:50.307527"],
      [id |-> 5,
       entry |-> "I got an email from an old friend today that was a really nice surprise.",
       user_id |-> 0,
       created_on |-> "2022-07-03T17:29:50.307527",
       last_edited_on |-> "2022-07-03T17:29:50.307527"]>>

\* ------------------------------------------------------------------- Init
Init ==
    /\ now = 0
    /\ users = <<>>
    /\ entries = <<>>
    /\ req = [w \in RaceWorkers |-> Idle]
    /\ login = None
    /\ next_token = 0
    /\ mail = {}
    /\ last = [op |-> "none", status |-> 0, page |-> "none"]
    /\ issued = <<>>
    /\ revoked = {}
    /\ used = {}
    /\ demo_entries = demo_entries_loaded

\* the state after "flask init_db" and "flask admin create_admin_user
\* admin@x.com FlaskIsAwesome123"
InitAdmin ==
    /\ now = 0
    /\ users = Insert(<<>>, 1, User("admin@x.com", "FlaskIsAwesome123", "Admin", 1, 0))
    /\ entries = <<>>
    /\ req = [w \in RaceWorkers |-> Idle]
    /\ login = None
    /\ next_token = 0
    /\ mail = {}
    /\ last = [op |-> "create", status |-> 0, page |-> "cli"]
    /\ issued = <<>>
    /\ revoked = {}
    /\ used = {}
    /\ demo_entries = demo_entries_loaded

Respond(op, status, page) == last' = [op |-> op, status |-> status, page |-> page]

\* the clock, up to a horizon
Tick(horizon) ==
    /\ now + TickStep <= horizon
    /\ now' = now + TickStep
    /\ UNCHANGED <<users, entries, req, login, next_token, mail, last, issued, revoked, used, demo_entries>>

\* the users table without its unique constraint
IntegrityError_unconstrained(tbl, obj) == FALSE

\* the unique constraint on users.email: the INSERT raises IntegrityError
IntegrityError(tbl, obj) == filter_by_email(tbl, obj.email) # {}

\* room in the tables (the bounds of the model)
RoomForUsers(n) ==
    /\ Cardinality(DOMAIN users) + n <= MaxUsers
    /\ NextId(users) + n - 1 <= MaxId

RoomForEntries(n) ==
    /\ Cardinality(DOMAIN entries) + n <= MaxEntries
    /\ NextId(entries) + n - 1 <= MaxEntryId

\* --------------------------------------------------------------- users_api
\* HTTPBasicAuth verify_password: the user of that email, if the password
\* is correct
verify_password(tbl, email, password_plaintext) ==
    LET user == first(filter_by_email(tbl, email))
    IN  IF user # None /\ is_password_correct(tbl[user], password_plaintext)
        THEN user ELSE None

\* HTTPTokenAuth verify_token
verify_token(tbl, auth_token, t) == verify_auth_token(tbl, auth_token, t)

\* the tokens a client can present: those handed out so far
Tokens == 1..next_token

\* POST /users/
register(email, password_plaintext, salt, delivered) ==
    LET new_user == User(email, password_plaintext, "User", salt, now)
    IN  /\ IF IntegrityError(users, new_user)
           THEN /\ Respond("register", 400, "json")
                /\ UNCHANGED <<users, mail>>
           ELSE /\ RoomForUsers(1)
                /\ users' = Insert(users, NextId(users), new_user)
                /\ mail' = send_email(generate_confirmation_email(new_user.email, now), delivered)
                /\ Respond("register", 201, "json")
        /\ UNCHANGED <<now, entries, req, login, next_token, issued, revoked, used, demo_entries>>

\* POST /users/ in a worker running beside others: up to session.add
register_add(w, email, password_plaintext, salt) ==
    /\ req[w] = Idle
    /\ req' = [req EXCEPT ![w] =
                 [op |-> "register",
                  obj |-> User(email, password_plaintext, "User", salt, now),
                  \* history: no user had the email when the request began
                  email_free |-> filter_by_email(users, email) = {}]]
    /\ UNCHANGED <<now, users, entries, login, next_token, mail, last, issued, revoked, used, demo_entries>>

\* ... and from session.commit on
register_commit(w, delivered) ==
    /\ req[w].op = "register"
    /\ req' = [req EXCEPT ![w] = Idle]
    /\ IF IntegrityError(users, req[w].obj)
       THEN /\ Respond("register", 400, "json")
            /\ UNCHANGED <<users, mail>>
       ELSE /\ RoomForUsers(1)
            /\ users' = Insert(users, NextId(users), req[w].obj)
            /\ mail' = send_email(generate_confirmation_email(req[w].obj.email, now), delivered)
            /\ Respond("register", 201, "json")
    /\ UNCHANGED <<now, entries, login, next_token, issued, revoked, used, demo_entries>>

\* POST /users/get-auth-token
get_auth_token(email, password_plaintext) ==
    LET user == verify_password(users, email, password_plaintext)
        token == next_token + 1
    IN  /\ IF user = None
           THEN /\ Respond("get_auth_token", 401, "json")
                /\ UNCHANGED <<users, next_token, issued>>
           ELSE /\ next_token < MaxTokens
                /\ users' = commit_update(users, user, users[user],
                                          generate_auth_token(users[user], token, now))
                /\ next_token' = token
                /\ issued' = Insert(issued, token, [user |-> user, at |-> now])
                /\ Respond("get_auth_token", 200, "json")
        /\ UNCHANGED <<now, entries, req, login, mail, revoked, used, demo_entries>>

\* GET /users/account
user_profile(auth_token) ==
    /\ IF verify_token(users, auth_token, now) = None
       THEN Respond("user_profile", 401, "json")
       ELSE Respond("user_profile", 200, "json")
    /\ UNCHANGED <<now, users, entries, req, login, next_token, mail, issued, revoked, used, demo_entries>>

\* change_password that revokes the token before it checks the old password
change_password_unchecked(auth_token, old_password_plaintext, new_password_plaintext, salt) ==
    LET user == verify_token(users, auth_token, now)
    IN  /\ IF user = None
           THEN /\ Respond("change_password", 401, "json")
                /\ UNCHANGED <<users, revoked>>
           ELSE /\ users' = commit_update(users, user, users[user],
                              IF is_password_correct(users[user], old_password_plaintext)
                              THEN revoke_auth_token(
                                     set_password(users[user], new_password_plaintext, salt), now)
                              ELSE revoke_auth_token(users[user], now))
                /\ revoked' = revoked \cup {[token |-> auth_token, by |-> "change_password"]}
                /\ Respond("change_password",
                           IF is_password_correct(users[user], old_password_plaintext)
                           THEN 200 ELSE 400, "json")
        /\ UNCHANGED <<now, entries, req, login, next_token, mail, issued, used, demo_entries>>

\* PUT /users/account
change_password(auth_token, old_password_plaintext, new_password_plaintext, salt) ==
    LET user == verify_token(users, auth_token, now)
    IN  /\ IF user = None
           THEN /\ Respond("change_password", 401, "json")
                /\ UNCHANGED <<users, revoked>>
           ELSE IF ~is_password_correct(users[user], old_password_plaintext)
           THEN /\ Respond("change_password", 400, "json")
                /\ UNCHANGED <<users, revoked>>
           ELSE /\ users' = commit_update(users, user, users[user],
                              revoke_auth_token(
                                set_password(users[user], new_password_plaintext, salt), now))
                /\ revoked' = revoked \cup {[token |-> auth_token, by |-> "change_password"]}
                /\ Respond("change_password", 200, "json")
        /\ UNCHANGED <<now, entries, req, login, next_token, mail, issued, used, demo_entries>>

\* datetime.now() of confirm_email: the local time
datetime_now(t) == t

\* confirm_email that confirms again a user who is confirmed
confirm_email_again(token) ==
    LET email == loads(token, email_confirmation_salt, max_age, now)
        user == first(filter_by_email(users, email))
    IN  /\ IF email \in BadSignature
           THEN /\ Respond("confirm_email", 200, "email_confirmation_invalid")
                /\ UNCHANGED <<users, used>>
           ELSE IF user = None
           THEN /\ Respond("confirm_email", 500, "AttributeError")
                /\ UNCHANGED <<users, used>>
           ELSE /\ users' = commit_update(users, user, users[user],
                              [users[user] EXCEPT !.email_confirmed = TRUE,
                                                  !.email_confirmed_on = datetime_now(now)])
                /\ used' = used \cup {token}
                /\ Respond("confirm_email", 200,
                           IF users[user].email_confirmed
                           THEN "email_confirmation_duplicate" ELSE "email_confirmed")
        /\ UNCHANGED <<now, entries, req, login, next_token, mail, issued, revoked, demo_entries>>

\* GET /users/confirm/<token>
confirm_email(token) ==
    LET email == loads(token, email_confirmation_salt, max_age, now)
        user == first(filter_by_email(users, email))
    IN  /\ IF email \in BadSignature
           THEN /\ Respond("confirm_email", 200, "email_confirmation_invalid")
                /\ UNCHANGED <<users, used>>
           ELSE IF user = None
           THEN \* user.email_confirmed of None: AttributeError
                /\ Respond("confirm_email", 500, "AttributeError")
                /\ UNCHANGED <<users, used>>
           ELSE IF users[user].email_confirmed
           THEN /\ Respond("confirm_email", 200, "email_confirmation_duplicate")
                /\ UNCHANGED <<users, used>>
           ELSE /\ users' = commit_update(users, user, users[user],
                              [users[user] EXCEPT !.email_confirmed = TRUE,
                                                  !.email_confirmed_on = datetime_now(now)])
                /\ used' = used \cup {token}
                /\ Respond("confirm_email", 200, "email_confirmed")
        /\ UNCHANGED <<now, entries, req, login, next_token, mail, issued, revoked, demo_entries>>

\* GET /users/resend_email_confirmation
resend_email_confirmation(auth_token, delivered) ==
    LET user == verify_token(users, auth_token, now)
    IN  /\ IF user = None
           THEN /\ Respond("resend_email_confirmation", 401, "json")
                /\ UNCHANGED <<users, mail>>
           ELSE IF users[user].email_confirmed
           THEN /\ Respond("resend_email_confirmation", 400, "json")
                /\ UNCHANGED <<users, mail>>
           ELSE /\ mail' = send_email(generate_confirmation_email(users[user].email, now), delivered)
                /\ users' = commit_update(users, user, users[user],
                                          confirmation_email_link_sent(users[user], now))
                /\ Respond("resend_email_confirmation", 200, "json")
        /\ UNCHANGED <<now, entries, req, login, next_token, issued, revoked, used, demo_entries>>

\* forgot_password that does not look at email_confirmed
forgot_password_unconfirmed(email, delivered) ==
    LET user == first(filter_by_email(users, email))
    IN  /\ IF user = None
           THEN /\ Respond("forgot_password", 400, "json")
                /\ UNCHANGED mail
           ELSE /\ mail' = send_email(generate_password_reset_email(users[user].email, now), delivered)
                /\ Respond("forgot_password", 200, "json")
        /\ UNCHANGED <<now, users, entries, req, login, next_token, issued, revoked, used, demo_entries>>

\* PUT /users/forgot-password
forgot_password(email, delivered) ==
    LET user == first(filter_by_email(users, email))
    IN  /\ IF user = None
           THEN /\ Respond("forgot_password", 400, "json")
                /\ UNCHANGED mail
           ELSE IF ~users[user].email_confirmed
           THEN /\ Respond("forgot_password", 400, "json")
                /\ UNCHANGED mail
           ELSE /\ mail' = send_email(generate_password_reset_email(users[user].email, now), delivered)
                /\ Respond("forgot_password", 200, "json")
        /\ UNCHANGED <<now, users, entries, req, login, next_token, issued, revoked, used, demo_entries>>

\* process_password_reset_token that does not test for a missing user:
\* user.set_password of None raises AttributeError
process_password_reset_token_unguarded(token, submitted, password, salt) ==
    LET email == loads(token, password_reset_salt, max_age, now)
        user == first(filter_by_email(users, email))
    IN  /\ IF email \in BadSignature
           THEN /\ Respond("process_password_reset_token", 200, "password_reset_invalid")
                /\ UNCHANGED users
           ELSE IF ~submitted
           THEN /\ Respond("process_password_reset_token", 200, "reset_password_with_token")
                /\ UNCHANGED users
           ELSE IF user = None
           THEN /\ Respond("process_password_reset_token", 500, "AttributeError")
                /\ UNCHANGED users
           ELSE /\ users' = commit_update(users, user, users[user],
                                          set_password(users[user], password, salt))
                /\ Respond("process_password_reset_token", 200, "password_updated")
        /\ UNCHANGED <<now, entries, req, login, next_token, mail, issued, revoked, used, demo_entries>>

\* GET|POST /users/password_reset_via_token/<token>; submitted is
\* form.validate_on_submit() and password is form.password.data
process_password_reset_token(token, submitted, password, salt) ==
    LET email == loads(token, password_reset_salt, max_age, now)
        user == first(filter_by_email(users, email))
    IN  /\ IF email \in BadSignature
           THEN /\ Respond("process_password_reset_token", 200, "password_reset_invalid")
                /\ UNCHANGED users
           ELSE IF ~submitted
           THEN /\ Respond("process_password_reset_token", 200, "reset_password_with_token")
                /\ UNCHANGED users
           ELSE IF user = None
           THEN /\ Respond("process_password_reset_token", 200, "password_reset_invalid")
                /\ UNCHANGED users
           ELSE /\ users' = commit_update(users, user, users[user],
                                          set_password(users[user], password, salt))
                /\ Respond("process_password_reset_token", 200, "password_updated")
        /\ UNCHANGED <<now, entries, req, login, next_token, mail, issued, revoked, used, demo_entries>>

\* ---------------------------------------------------------- class Entry
\* Entry.__init__: created_on and last_edited_on are two calls of
\* datetime.utcnow(), the second at t2 >= t
Entry(entry, user_id, t, t2) ==
    [entry |-> entry, user_id |-> user_id, created_on |-> t, last_edited_on |-> t2]

\* the values a second datetime.utcnow() of a handler can return: the clock
\* has stayed or has advanced, up to a horizon
utcnow_again(horizon) == {t \in {now, now + TickStep} : t <= horizon}

\* Entry.update that stamps both times
update_stamping(self, entry, t) ==
    [self EXCEPT !.entry = entry, !.created_on = t, !.last_edited_on = t]

\* Entry.update
update(self, entry, t) == [self EXCEPT !.entry = entry, !.last_edited_on = t]

filter_by_user_id(tbl, user_id) == {i \in DOMAIN tbl : tbl[i].user_id = user_id}

\* ------------------------------------------------------------------ admin
\* flask_login current_user: load_user(session id), None when anonymous
current_user == IF login \in DOMAIN users THEN login ELSE None

\* the gate without @admin_required
admin_gate_login_only(index) ==
    IF current_user = None THEN 302
    ELSE IF index \notin DOMAIN users THEN 404
    ELSE 0

\* @login_required, @admin_required, first_or_404: the status that ends
\* the request before the handler body, 0 when the body runs
admin_gate(index) ==
    IF current_user = None THEN 302
    ELSE IF users[current_user].user_type # "Admin" THEN 403
    ELSE IF index \notin DOMAIN users THEN 404
    ELSE 0

\* flask admin create_admin_user <email> <password>
create(email, password, salt) ==
    LET admin_user == User(email, password, "Admin", salt, now)
    IN  /\ IF IntegrityError(users, admin_user)
           THEN /\ Respond("create", 1, "IntegrityError")
                /\ UNCHANGED users
           ELSE /\ RoomForUsers(1)
                /\ users' = Insert(users, NextId(users), admin_user)
                /\ Respond("create", 0, "cli")
        /\ UNCHANGED <<now, entries, req, login, next_token, mail, issued, revoked, used, demo_entries>>

\* POST /admin/login with a valid form
admin_login(email, password) ==
    LET user == first(filter_by_email(users, email))
    IN  /\ IF /\ user # None
              /\ is_password_correct(users[user], password)
              /\ users[user].user_type = "Admin"
           THEN /\ login' = user
                /\ Respond("admin_login", 302, "admin_list_users")
           ELSE /\ Respond("admin_login", 200, "login")
                /\ UNCHANGED login
        /\ UNCHANGED <<now, users, entries, req, next_token, mail, issued, revoked, used, demo_entries>>

\* GET /admin/logout
admin_logout ==
    /\ IF admin_gate(login) # 0
       THEN /\ Respond("admin_logout", admin_gate(login), "abort")
            /\ UNCHANGED login
       ELSE /\ login' = None
            /\ Respond("admin_logout", 302, "admin_login")
    /\ UNCHANGED <<now, users, entries, req, next_token, mail, issued, revoked, used, demo_entries>>

\* GET /admin/users/
admin_list_users ==
    /\ IF admin_gate(login) # 0
       THEN Respond("admin_list_users", admin_gate(login), "abort")
       ELSE Respond("admin_list_users", 200, "users")
    /\ UNCHANGED <<now, users, entries, req, login, next_token, mail, issued, revoked, used, demo_entries>>

\* GET /admin/users/<index>/confirm_email
admin_confirm_email(index) ==
    /\ IF admin_gate(index) # 0
       THEN /\ Respond("admin_confirm_email", admin_gate(index), "abort")
            /\ UNCHANGED users
       ELSE /\ users' = commit_update(users, index, users[index],
                                      confirm_email_address(users[index], now))
            /\ Respond("admin_confirm_email", 302, "admin_list_users")
    /\ UNCHANGED <<now, entries, req, login, next_token, mail, issued, revoked, used, demo_entries>>

\* GET /admin/users/<index>/unconfirm_email
admin_unconfirm_email(index) ==
    /\ IF admin_gate(index) # 0
       THEN /\ Respond("admin_unconfirm_email", admin_gate(index), "abort")
            /\ UNCHANGED users
       ELSE /\ users' = commit_update(users, index, users[index],
                                      revoke_email_address_confirmation(users[index]))
            /\ Respond("admin_unconfirm_email", 302, "admin_list_users")
    /\ UNCHANGED <<now, entries, req, login, next_token, mail, issued, revoked, used, demo_entries>>

\* GET|POST /admin/users/<index>/change_password; submitted is
\* request.method == 'POST' and form.validate_on_submit()
admin_change_password(index, submitted, password, salt) ==
    /\ IF admin_gate(index) # 0
       THEN /\ Respond("admin_change_password", admin_gate(index), "abort")
            /\ UNCHANGED users
       ELSE IF ~submitted
       THEN /\ Respond("admin_change_password", 200, "change_password")
            /\ UNCHANGED users
       ELSE /\ users' = commit_update(users, index, users[index],
                                      set_password(users[index], password, salt))
            /\ Respond("admin_change_password", 302, "admin_list_users")
    /\ UNCHANGED <<now, entries, req, login, next_token, mail, issued, revoked, used, demo_entries>>

\* GET /admin/users/<index>/revoke_token
admin_revoke_token(index) ==
    /\ IF admin_gate(index) # 0
       THEN /\ Respond("admin_revoke_token", admin_gate(index), "abort")
            /\ UNCHANGED <<users, revoked>>
       ELSE /\ users' = commit_update(users, index, users[index],
                                      revoke_auth_token(users[index], now))
            /\ revoked' = revoked \cup
                  {[token |-> tok, by |-> "admin_revoke_token"] :
                     tok \in {users[index].auth_token} \ {None}}
            /\ Respond("admin_revoke_token", 302, "admin_list_users")
    /\ UNCHANGED <<now, entries, req, login, next_token, mail, issued, used, demo_entries>>

\* admin_delete_user that deletes the user and leaves the entries
admin_delete_user_only(index) ==
    /\ IF admin_gate(index) # 0
       THEN /\ Respond("admin_delete_user", admin_gate(index), "abort")
            /\ UNCHANGED <<users, entries>>
       ELSE IF users[index].user_type = "Admin"
       THEN /\ Respond("admin_delete_user", 302, "error")
            /\ UNCHANGED <<users, entries>>
       ELSE /\ users' = Delete(users, {index})
            /\ Respond("admin_delete_user", 302, "success")
            /\ UNCHANGED entries
    /\ UNCHANGED <<now, req, login, next_token, mail, issued, revoked, used, demo_entries>>

\* GET /admin/users/<index>/delete_user
admin_delete_user(index) ==
    /\ IF admin_gate(index) # 0
       THEN /\ Respond("admin_delete_user", admin_gate(index), "abort")
            /\ UNCHANGED <<users, entries>>
       ELSE IF users[index].user_type = "Admin"
       THEN /\ Respond("admin_delete_user", 302, "error")
            /\ UNCHANGED <<users, entries>>
       ELSE /\ entries' = Delete(entries, filter_by_user_id(entries, index))
            /\ users' = Delete(users, {index})
            /\ Respond("admin_delete_user", 302, "success")
    /\ UNCHANGED <<now, req, login, next_token, mail, issued, revoked, used, demo_entries>>

\* ---------------------------------------------------------- CLI commands
\* flask init_db: drop_all, create_all
initialize_database ==
    /\ users' = <<>>
    /\ entries' = <<>>
    /\ Respond("init_db", 0, "cli")
    /\ UNCHANGED <<now, req, login, next_token, mail, issued, revoked, used, demo_entries>>

\* flask fill_db: two users and three entries with user_id 1, 1 and 2, in
\* one commit; a duplicate email raises IntegrityError and nothing is kept.
\* t2 is the clock from the second utcnow() of the first Entry on.
fill_database(salt1, salt2, t2) ==
    LET u1 == User("pkennedy@hey.com", "FlaskIsAwesome123", "User", salt1, now)
        u2 == User("patkennedy79@gmail.com", "FlaskIsTheBest456", "User", salt2, now)
        e == NextId(entries)
        with_u1 == Insert(users, NextId(users), u1)
    IN  /\ IF IntegrityError(users, u1) \/ IntegrityError(users, u2)
           THEN /\ Respond("fill_db", 1, "IntegrityError")
                /\ UNCHANGED <<now, users, entries>>
           ELSE /\ RoomForUsers(2)
                /\ RoomForEntries(3)
                /\ users' = Insert(with_u1, NextId(with_u1), u2)
                /\ entries' =
                     Insert(Insert(Insert(entries,
                        e, Entry("The sun was shining when I woke up this morning.", 1, now, t2)),
                        e + 1, Entry("I tried a new fruit mixture in my oatmeal for breakfast.", 1, t2, t2)),
                        e + 2, Entry("Today I ate a great sandwich for lunch.", 2, t2, t2))
                /\ now' = t2
                /\ Respond("fill_db", 0, "cli")
        /\ UNCHANGED <<req, login, next_token, mail, issued, revoked, used, demo_entries>>

\* ------------------------------------------------- the background mail thread
\* Thread(target=send_email, args=[message]).start(): the thread takes the
\* worker's slot when the request has been answered
Thread_start(w, message) == [req EXCEPT ![w] = [op |-> "send_email", message |-> message]]

\* the thread that raises into the request: a failed send takes back the
\* row of the addressee and answers 500
send_email_raising(w, delivered) ==
    /\ req[w].op = "send_email"
    /\ mail' = send_email(req[w].message, delivered)
    /\ req' = [req EXCEPT ![w] = Idle]
    /\ IF delivered
       THEN UNCHANGED <<users, last>>
       ELSE /\ users' = Delete(users, filter_by_email(users, req[w].message.payload))
            /\ Respond("send_email", 500, "json")
    /\ UNCHANGED <<now, entries, login, next_token, issued, revoked, used, demo_entries>>

\* send_email(message) in its thread: mail.send delivers the message or
\* raises, and an exception ends the thread only
send_email_thread(w, delivered) ==
    /\ req[w].op = "send_email"
    /\ mail' = send_email(req[w].message, delivered)
    /\ req' = [req EXCEPT ![w] = Idle]
    /\ UNCHANGED <<now, users, entries, login, next_token, last, issued, revoked, used, demo_entries>>

\* POST /users/, answered while the mail thread is still to run
register_thread(w, email, password_plaintext, salt) ==
    LET new_user == User(email, password_plaintext, "User", salt, now)
    IN  /\ req[w] = Idle
        /\ IF IntegrityError(users, new_user)
           THEN /\ Respond("register", 400, "json")
                /\ UNCHANGED <<users, req>>
           ELSE /\ RoomForUsers(1)
                /\ users' = Insert(users, NextId(users), new_user)
                /\ req' = Thread_start(w, generate_confirmation_email(new_user.email, now))
                /\ Respond("register", 201, "json")
        /\ UNCHANGED <<now, entries, login, next_token, mail, issued, revoked, used, demo_entries>>

\* PUT /users/forgot-password, answered while the mail thread is still to run
forgot_password_thread(w, email) ==
    LET user == first(filter_by_email(users, email))
    IN  /\ req[w] = Idle
        /\ IF user = None
           THEN /\ Respond("forgot_password", 400, "json")
                /\ UNCHANGED req
           ELSE IF ~users[user].email_confirmed
           THEN /\ Respond("forgot_password", 400, "json")
                /\ UNCHANGED req
           ELSE /\ req' = Thread_start(w, generate_password_reset_email(users[user].email, now))
                /\ Respond("forgot_password", 200, "json")
        /\ UNCHANGED <<now, users, entries, login, next_token, mail, issued, revoked, used, demo_entries>>

\* --------------------------- get_auth_token and change_password, two workers
\* POST /users/get-auth-token beside another worker: @authenticate(basic_auth)
\* loads the user into the worker's session
get_auth_token_authenticate(w, email, password_plaintext) ==
    LET user == verify_password(users, email, password_plaintext)
    IN  /\ req[w] = Idle
        /\ IF user = None
           THEN /\ Respond("get_auth_token", 401, "json")
                /\ UNCHANGED req
           ELSE /\ req' = [req EXCEPT ![w] =
                             [op |-> "get_auth_token", id |-> user, loaded |-> users[user],
                              password_plaintext |-> password_plaintext]]
                /\ UNCHANGED last
        /\ UNCHANGED <<now, users, entries, login, next_token, mail, issued, revoked, used, demo_entries>>

\* ... generate_auth_token and session.commit: the UPDATE of the columns
\* this session changed
get_auth_token_commit(w) ==
    LET token == next_token + 1
    IN  /\ req[w].op = "get_auth_token"
        /\ next_token < MaxTokens
        /\ users' = commit_update(users, req[w].id, req[w].loaded,
                                  generate_auth_token(req[w].loaded, token, now))
        /\ next_token' = token
        /\ issued' = Insert(issued, token, [user |-> req[w].id, at |-> now])
        /\ req' = [req EXCEPT ![w] = Idle]
        /\ Respond("get_auth_token", 200, "json")
        /\ UNCHANGED <<now, entries, login, mail, revoked, used, demo_entries>>

\* PUT /users/account beside another worker: @authenticate(token_auth) loads
\* the user and the old password is checked
change_password_authenticate(w, auth_token, old_password_plaintext, new_password_plaintext, salt) ==
    LET user == verify_token(users, auth_token, now)
    IN  /\ req[w] = Idle
        /\ IF user = None
           THEN /\ Respond("change_password", 401, "json")
                /\ UNCHANGED req
           ELSE IF ~is_password_correct(users[user], old_password_plaintext)
           THEN /\ Respond("change_password", 400, "json")
                /\ UNCHANGED req
           ELSE /\ req' = [req EXCEPT ![w] =
                             [op |-> "change_password", id |-> user, loaded |-> users[user],
                              auth_token |-> auth_token,
                              new_password_plaintext |-> new_password_plaintext,
                              salt |-> salt]]
                /\ UNCHANGED last
        /\ UNCHANGED <<now, users, entries, login, next_token, mail, issued, revoked, used, demo_entries>>

\* ... set_password, revoke_auth_token and session.commit
change_password_commit(w) ==
    /\ req[w].op = "change_password"
    /\ users' = commit_update(users, req[w].id, req[w].loaded,
                   revoke_auth_token(
                     set_password(req[w].loaded, req[w].new_password_plaintext, req[w].salt),
                     now))
    /\ revoked' = revoked \cup {[token |-> req[w].auth_token, by |-> "change_password"]}
    /\ req' = [req EXCEPT ![w] = Idle]
    /\ Respond("change_password", 200, "json")
    /\ UNCHANGED <<now, entries, login, next_token, mail, issued, used, demo_entries>>

\* ------------------------------------- admin_confirm_email beside a request
\* GET /admin/users/<index>/confirm_email in a worker running beside other
\* requests: the decorators and the query that loads the user
admin_confirm_email_load(w, index) ==
    /\ req[w] = Idle
    /\ IF admin_gate(index) # 0
       THEN /\ Respond("admin_confirm_email", admin_gate(index), "abort")
            /\ UNCHANGED req
       ELSE /\ req' = [req EXCEPT ![w] =
                         [op |-> "admin_confirm_email", id |-> index, loaded |-> users[index]]]
            /\ UNCHANGED last
    /\ UNCHANGED <<now, users, entries, login, next_token, mail, issued, revoked, used,
                   demo_entries>>

\* ... confirm_email_address and session.commit: the UPDATE of the columns
\* this session changed; StaleDataError when the row is gone
admin_confirm_email_commit(w) ==
    /\ req[w].op = "admin_confirm_email"
    /\ req' = [req EXCEPT ![w] = Idle]
    /\ IF req[w].id \notin DOMAIN users
       THEN /\ Respond("admin_confirm_email", 500, "StaleDataError")
            /\ UNCHANGED users
       ELSE /\ users' = commit_update(users, req[w].id, req[w].loaded,
                                      confirm_email_address(req[w].loaded, now))
            /\ Respond("admin_confirm_email", 302, "admin_list_users")
    /\ UNCHANGED <<now, entries, login, next_token, mail, issued, revoked, used, demo_entries>>

\* -------------------------------------------------------------- journal_api
\* POST /journal/ (Bearer): an entry of the authenticated user; t2 is the
\* clock at the second utcnow() of Entry.__init__
add_journal_entry(auth_token, entry, t2) ==
    LET user == verify_token(users, auth_token, now)
    IN  /\ IF user = None
           THEN /\ Respond("add_journal_entry", 401, "json")
                /\ UNCHANGED <<now, entries>>
           ELSE /\ RoomForEntries(1)
                /\ entries' = Insert(entries, NextId(entries), Entry(entry, user, now, t2))
                /\ now' = t2
                /\ Respond("add_journal_entry", 201, "json")
        /\ UNCHANGED <<users, req, login, next_token, mail, issued, revoked, used, demo_entries>>

\* PUT /journal/<index> (Bearer): 404 if not found or not owned
update_journal_entry(auth_token, index, entry) ==
    LET user == verify_token(users, auth_token, now)
    IN  /\ IF user = None
           THEN /\ Respond("update_journal_entry", 401, "json")
                /\ UNCHANGED entries
           ELSE IF index \notin DOMAIN entries \/ entries[index].user_id # user
           THEN /\ Respond("update_journal_entry", 404, "json")
                /\ UNCHANGED entries
           ELSE /\ entries' = [entries EXCEPT ![index] = update(@, entry, now)]
                /\ Respond("update_journal_entry", 200, "json")
        /\ UNCHANGED <<now, users, req, login, next_token, mail, issued, revoked, used, demo_entries>>

\* ----------------------------------------------------------------- demo_api
\* the frame of a demo request that leaves demo_entries alone
demo_response(op, status) ==
    /\ Respond(op, status, "json")
    /\ UNCHANGED <<now, users, entries, req, login, next_token, mail, issued, revoked, used>>

\* GET /demo/journal/: returns demo_entries
demo_journal ==
    /\ demo_response("demo_journal", 200)
    /\ UNCHANGED demo_entries

\* POST /demo/journal/: builds new_message and returns it
demo_add_journal_entry(entry) ==
    /\ demo_response("demo_add_journal_entry", 201)
    /\ UNCHANGED demo_entries

\* GET /demo/journal/<index>
demo_get_journal_entry(index) ==
    /\ IF index = 0 \/ index > Len(demo_entries)
       THEN demo_response("demo_get_journal_entry", 404)
       ELSE demo_response("demo_get_journal_entry", 200)
    /\ UNCHANGED demo_entries

\* PUT /demo/journal/<index>: entry is the dict in the list, and
\* entry['entry'] = ... assigns into it
demo_update_journal_entry(entry, index) ==
    IF index = 0 \/ index > Len(demo_entries)
    THEN /\ demo_response("demo_update_journal_entry", 404)
         /\ UNCHANGED demo_entries
    ELSE /\ demo_entries' = [demo_entries EXCEPT ![index].entry = entry]
         /\ demo_response("demo_update_journal_entry", 200)

\* DELETE /demo/journal/<index>
demo_delete_journal_entry(index) ==
    /\ IF index = 0 \/ index > Len(demo_entries)
       THEN demo_response("demo_delete_journal_entry", 404)
       ELSE demo_response("demo_delete_journal_entry", 204)
    /\ UNCHANGED demo_entries

\* ---------------------------------------------------------- specifications
AdminEmail == "admin@x.com"
UserEmails == Emails \ {AdminEmail}

\* registration, by concurrent workers and by the CLI commands
NextReg ==
    \/ \E e \in Emails, s \in Salts : create(e, "FlaskIsAwesome123", s)
    \/ \E e \in Emails, s \in Salts : register(e, "FlaskIsAwesome123", s, FALSE)
    \/ \E w \in RaceWorkers, e \in Emails, p \in Passwords, s \in Salts : register_add(w, e, p, s)
    \/ \E w \in RaceWorkers : register_commit(w, FALSE)
    \/ \E s1, s2 \in Salts : fill_database(s1, s2, now)

SpecReg == Init /\ [][NextReg]_vars

\* bearer tokens and passwords
NextAuth ==
    \/ Tick(MaxTokenTime)
    \/ \E s \in Salts : register("pkennedy@hey.com", "FlaskIsAwesome123", s, FALSE)
    \/ \E e \in UserEmails, p \in Passwords : get_auth_token(e, p)
    \/ \E t \in Tokens : user_profile(t)
    \/ \E t \in Tokens, old, new \in Passwords, s \in Salts : change_password(t, old, new, s)
    \/ \E p \in Passwords : admin_login(AdminEmail, p)
    \/ \E i \in 1..MaxId : admin_revoke_token(i)
    \/ \E i \in 2..MaxId, p \in Passwords, s \in Salts : admin_change_password(i, TRUE, p, s)
    \/ \E i \in 1..MaxId : admin_delete_user(i)

SpecAuth == InitAdmin /\ [][NextAuth]_vars

\* the admin console's deletion of users and their entries
NextAdmin ==
    \/ \E p \in Passwords, s \in Salts : create(AdminEmail, p, s)
    \/ \E e \in Emails, p \in Passwords, s \in Salts : register(e, p, s, FALSE)
    \/ \E e \in Emails, p \in Passwords : admin_login(e, p)
    \/ admin_logout
    \/ admin_list_users
    \/ \E i \in 1..MaxId : admin_delete_user(i)
    \/ \E s1, s2 \in Salts : fill_database(s1, s2, now)
    \/ initialize_database

SpecAdmin == Init /\ [][NextAdmin]_vars

\* the signed links of the confirmation and password-reset emails
NextLinks ==
    \/ Tick(MaxTime)
    \/ \E e \in UserEmails, s \in Salts, d \in BOOLEAN : register(e, "FlaskIsAwesome123", s, d)
    \/ \E l \in Links : confirm_email(l)
    \/ \E e \in UserEmails, d \in BOOLEAN : forgot_password(e, d)
    \/ \E l \in Links, b \in BOOLEAN, p \in Passwords, s \in Salts :
          process_password_reset_token(l, b, p, s)

SpecLinks == Init /\ [][NextLinks]_vars

\* the confirmation link and the admin console's confirm and unconfirm
NextConfirm ==
    \/ Tick(MaxTokenTime)
    \/ \E s \in Salts, d \in BOOLEAN : register("pkennedy@hey.com", "FlaskIsAwesome123", s, d)
    \/ \E l \in Links : confirm_email(l)
    \/ admin_login(AdminEmail, "FlaskIsAwesome123")
    \/ \E i \in 1..MaxId : admin_confirm_email(i)
    \/ \E i \in 1..MaxId : admin_unconfirm_email(i)
    \/ \E i \in 1..MaxId : admin_delete_user(i)

SpecConfirm == InitAdmin /\ [][NextConfirm]_vars

\* the password reset of a user who holds a bearer token
NextReset ==
    \/ Tick(MaxTime)
    \/ \E s \in Salts : register("pkennedy@hey.com", "FlaskIsAwesome123", s, TRUE)
    \/ \E l \in Links : confirm_email(l)
    \/ get_auth_token("pkennedy@hey.com", "FlaskIsAwesome123")
    \/ \E t \in Tokens : user_profile(t)
    \/ forgot_password("pkennedy@hey.com", TRUE)
    \/ \E l \in Links, b \in BOOLEAN, s \in Salts :
          process_password_reset_token(l, b, "FlaskIsTheBest456", s)
    \/ admin_login(AdminEmail, "FlaskIsAwesome123")
    \/ \E i \in 1..MaxId : admin_delete_user(i)

SpecReset == InitAdmin /\ [][NextReset]_vars

\* the admin console and the sessions that reach it
NextGate ==
    \/ \E s \in Salts : create(AdminEmail, "FlaskIsAwesome123", s)
    \/ \E s \in Salts : register("pkennedy@hey.com", "FlaskIsAwesome123", s, FALSE)
    \/ \E e \in {AdminEmail, "pkennedy@hey.com"}, p \in Passwords : admin_login(e, p)
    \/ admin_logout
    \/ \E i \in 1..MaxId : admin_confirm_email(i)
    \/ \E i \in 1..MaxId : admin_unconfirm_email(i)
    \/ \E i \in 1..MaxId, b \in BOOLEAN, s \in Salts :
          admin_change_password(i, b, "FlaskIsTheBest456", s)
    \/ \E i \in 1..MaxId : admin_revoke_token(i)
    \/ \E i \in 1..MaxId : admin_delete_user(i)
    \/ \E s1, s2 \in Salts : fill_database(s1, s2, now)
    \/ initialize_database

SpecGate == Init /\ [][NextGate]_vars

\* requests answered before their mail thread has run
NextMail ==
    \/ \E w \in RaceWorkers, e \in UserEmails, s \in Salts :
          register_thread(w, e, "FlaskIsAwesome123", s)
    \/ \E w \in RaceWorkers, d \in BOOLEAN : send_email_thread(w, d)
    \/ \E l \in Links : confirm_email(l)
    \/ \E w \in RaceWorkers, e \in UserEmails : forgot_password_thread(w, e)

SpecMail == Init /\ [][NextMail]_vars

\* journal entries of one user
NextJournal ==
    \/ Tick(MaxTokenTime)
    \/ \E s \in Salts : register("pkennedy@hey.com", "FlaskIsAwesome123", s, FALSE)
    \/ get_auth_token("pkennedy@hey.com", "FlaskIsAwesome123")
    \/ \E t \in Tokens, x \in Texts, t2 \in utcnow_again(MaxTokenTime) :
          add_journal_entry(t, x, t2)
    \/ \E s1, s2 \in Salts, t2 \in utcnow_again(MaxTokenTime) : fill_database(s1, s2, t2)
    \/ \E t \in Tokens, i \in 1..MaxEntryId, x \in Texts : update_journal_entry(t, i, x)

SpecJournal == Init /\ [][NextJournal]_vars

\* every operation of the users API and of the admin console
NextTypes ==
    \/ \E s \in Salts : register("pkennedy@hey.com", "FlaskIsAwesome123", s, TRUE)
    \/ get_auth_token("pkennedy@hey.com", "FlaskIsAwesome123")
    \/ \E t \in Tokens : user_profile(t)
    \/ \E t \in Tokens, s \in Salts :
          change_password(t, "FlaskIsAwesome123", "FlaskIsTheBest456", s)
    \/ \E l \in Links : confirm_email(l)
    \/ \E t \in Tokens : resend_email_confirmation(t, TRUE)
    \/ forgot_password("pkennedy@hey.com", TRUE)
    \/ \E l \in Links, s \in Salts :
          process_password_reset_token(l, TRUE, "FlaskIsTheBest456", s)
    \/ admin_login(AdminEmail, "FlaskIsAwesome123")
    \/ admin_logout
    \/ admin_list_users
    \/ \E i \in 1..MaxId : admin_confirm_email(i)
    \/ \E i \in 1..MaxId : admin_unconfirm_email(i)
    \/ \E i \in 1..MaxId, s \in Salts : admin_change_password(i, TRUE, "FlaskIsTheBest456", s)
    \/ \E i \in 1..MaxId : admin_revoke_token(i)
    \/ \E i \in 1..MaxId : admin_delete_user(i)

SpecTypes == InitAdmin /\ [][NextTypes]_vars

\* a token request and a password change of one user in two workers
NextRace ==
    \/ Tick(TickStep)
    \/ \E s \in Salts : register("pkennedy@hey.com", "FlaskIsAwesome123", s, FALSE)
    \/ get_auth_token("pkennedy@hey.com", "FlaskIsAwesome123")
    \/ \E t \in Tokens : user_profile(t)
    \/ \E w \in RaceWorkers, p \in Passwords :
          get_auth_token_authenticate(w, "pkennedy@hey.com", p)
    \/ \E w \in RaceWorkers : get_auth_token_commit(w)
    \/ \E w \in RaceWorkers, t \in Tokens, old, new \in Passwords, s \in Salts :
          change_password_authenticate(w, t, old, new, s)
    \/ \E w \in RaceWorkers : change_password_commit(w)

SpecRace == Init /\ [][NextRace]_vars

\* the demo blueprint; <int:index> takes the indices from 0 on
DemoIndices == 0..(Len(demo_entries_loaded) + 1)

NextDemo ==
    \/ demo_journal
    \/ \E x \in Texts : demo_add_journal_entry(x)
    \/ \E i \in DemoIndices : demo_get_journal_entry(i)
    \/ \E x \in Texts, i \in DemoIndices : demo_update_journal_entry(x, i)
    \/ \E i \in DemoIndices : demo_delete_journal_entry(i)

SpecDemo == Init /\ [][NextDemo]_vars

\* the users API, and the CLI command that creates an Admin
NextUsers ==
    \/ \E s \in Salts : create(AdminEmail, "FlaskIsAwesome123", s)
    \/ \E e \in UserEmails, s \in Salts : register(e, "FlaskIsAwesome123", s, TRUE)
    \/ \E e \in Emails : get_auth_token(e, "FlaskIsAwesome123")
    \/ \E t \in Tokens : user_profile(t)
    \/ \E t \in Tokens, s \in Salts :
          change_password(t, "FlaskIsAwesome123", "FlaskIsTheBest456", s)
    \/ \E l \in Links : confirm_email(l)
    \/ \E t \in Tokens : resend_email_confirmation(t, TRUE)
    \/ \E e \in UserEmails : forgot_password(e, TRUE)
    \/ \E l \in Links, s \in Salts :
          process_password_reset_token(l, TRUE, "FlaskIsTheBest456", s)

SpecUsers == Init /\ [][NextUsers]_vars

\* confirmation and its revocation, with an admin_confirm_email that runs
\* beside other requests
NextConfirmRace ==
    \/ Tick(TickStep)
    \/ \E s \in Salts, d \in BOOLEAN : register("pkennedy@hey.com", "FlaskIsAwesome123", s, d)
    \/ \E l \in Links : confirm_email(l)
    \/ admin_login(AdminEmail, "FlaskIsAwesome123")
    \/ \E i \in 1..MaxId : admin_confirm_email(i)
    \/ \E i \in 1..MaxId : admin_unconfirm_email(i)
    \/ \E w \in RaceWorkers, i \in 1..MaxId : admin_confirm_email_load(w, i)
    \/ \E w \in RaceWorkers : admin_confirm_email_commit(w)

SpecConfirmRace == InitAdmin /\ [][NextConfirmRace]_vars

\* ------------------------------------------------------------------ claims
EmailHeld(email) == \E i \in DOMAIN users : users[i].email = email

\* C1: a register call whose email an existing user holds ends with 400 and
\* adds no row, whether the request runs alone or beside another worker's,
\* and in every reachable state no two users share an email.
C1_RegisterConflict ==
    /\ [](\A i, j \in DOMAIN users : users[i].email = users[j].email => i = j)
    /\ [][/\ \A w \in RaceWorkers :
               (/\ req[w].op = "register"
                /\ req'[w] = Idle
                /\ EmailHeld(req[w].obj.email))
               => (last'.status = 400 /\ users' = users)
          /\ \A e \in Emails, s \in Salts :
               (register(e, "FlaskIsAwesome123", s, FALSE) /\ EmailHeld(e))
               => (last'.status = 400 /\ users' = users)]_vars

\* a worker holds, uncommitted, a new user whose email was free when its
\* request began and which another registration has taken since, and a
\* registration has been refused with 400
C1_Witness ==
    /\ last.op = "register"
    /\ last.status = 400
    /\ \E w \in RaceWorkers :
          /\ req[w].op = "register"
          /\ req[w].email_free
          /\ EmailHeld(req[w].obj.email)

Held(tok) ==
    /\ tok \in DOMAIN issued
    /\ issued[tok].user \in DOMAIN users
    /\ users[issued[tok].user].auth_token = tok

Revoked(tok) == \E r \in revoked : r.token = tok

\* C2: a token issued to a user at time t, not replaced or revoked since and
\* its user not deleted, verifies as that user at every time before t + 60
\* minutes and as no user from t + 60 minutes on; a request that only
\* verifies a token (GET /users/account) changes no user row.
C2_TokenWindow ==
    /\ [](\A tok \in DOMAIN issued :
            (Held(tok) /\ ~Revoked(tok))
            => verify_auth_token(users, tok, now) =
                 (IF now < issued[tok].at + 60 * 60 THEN issued[tok].user ELSE None))
    /\ [][\A tok \in Tokens : user_profile(tok) => users' = users]_vars

\* a token that was never revoked and that its user still holds has run
\* out: the clock stands at the end of the 60 minutes and it verifies as
\* no user
C2_Witness ==
    \E tok \in DOMAIN issued :
        /\ Held(tok)
        /\ ~Revoked(tok)
        /\ now = issued[tok].at + 60 * 60
        /\ verify_auth_token(users, tok, now) = None
        /\ last.op = "user_profile"
        /\ last.status = 401

\* C3: revoke_auth_token (admin_revoke_token, change_password) leaves the
\* auth_token string as it is, and the revoked string verifies as no user
\* at the revocation and in every later state.
C3_Revoke ==
    /\ [](\A r \in revoked : verify_auth_token(users, r.token, now) = None)
    /\ [][/\ \A i \in 1..MaxId :
               (admin_revoke_token(i) /\ last'.status = 302 /\ last'.page = "admin_list_users")
               => /\ users'[i].auth_token = users[i].auth_token
                  /\ users[i].auth_token # None
                       => verify_auth_token(users', users[i].auth_token, now') = None
          /\ \A tok \in Tokens, old, new \in Passwords, s \in Salts :
               (change_password(tok, old, new, s) /\ last'.status = 200)
               => /\ users'[issued[tok].user].auth_token = tok
                  /\ verify_auth_token(users', tok, now') = None]_vars

\* a user still holds a token that the admin revoked earlier, inside the
\* 60 minutes it was issued for
C3_Witness ==
    \E r \in revoked :
        /\ r.by = "admin_revoke_token"
        /\ Held(r.token)
        /\ users[issued[r.token].user].auth_token_expiration < now
        /\ now < issued[r.token].at + 60 * 60

\* C4: at most one token verifies as a given user, and a token issued to a
\* user before another token of that user verifies as no user.
C4_SingleSession ==
    /\ \A t1, t2 \in Tokens :
          (/\ verify_auth_token(users, t1, now) # None
           /\ verify_auth_token(users, t1, now) = verify_auth_token(users, t2, now))
          => t1 = t2
    /\ \A t1, t2 \in DOMAIN issued :
          (t1 < t2 /\ issued[t1].user = issued[t2].user)
          => verify_auth_token(users, t1, now) = None

\* a user got a second token inside the window of the first, which was
\* never revoked, and the second verifies
C4_Witness ==
    \E t1, t2 \in DOMAIN issued :
        /\ t1 < t2
        /\ issued[t1].user = issued[t2].user
        /\ users[issued[t2].user].registered_on <= issued[t1].at
        /\ ~Revoked(t1)
        /\ now < issued[t1].at + 60 * 60
        /\ verify_auth_token(users, t2, now) = issued[t2].user

\* C5: after a successful change_password the token of the request verifies
\* as no user, then and in every later state; the new password is accepted
\* and the old one, when different, is not.
C5_ChangePassword ==
    /\ [](\A r \in revoked :
            r.by = "change_password" => verify_auth_token(users, r.token, now) = None)
    /\ [][\A tok \in Tokens, old, new \in Passwords, s \in Salts :
            (change_password(tok, old, new, s) /\ last'.status = 200)
            => /\ verify_auth_token(users', tok, now') = None
               /\ is_password_correct(users'[issued[tok].user], new)
               /\ old # new => ~is_password_correct(users'[issued[tok].user], old)]_vars

\* a user changed the password to another one, and later still holds the
\* token of that request inside the window it was issued for
C5_Witness ==
    \E r \in revoked :
        /\ r.by = "change_password"
        /\ Held(r.token)
        /\ users[issued[r.token].user].auth_token_expiration < now
        /\ now < issued[r.token].at + 60 * 60
        /\ users[issued[r.token].user].registered_on <= issued[r.token].at
        /\ users[issued[r.token].user].user_type = "User"
        /\ is_password_correct(users[issued[r.token].user], "FlaskIsTheBest456")

\* C6: change_password with a wrong old password answers 400 and leaves the
\* users table as it was, so the token of the request still verifies.
C6_WrongOldPassword ==
    [][\A tok \in Tokens, old, new \in Passwords, s \in Salts :
         (/\ change_password(tok, old, new, s)
          /\ verify_auth_token(users, tok, now) # None
          /\ ~is_password_correct(users[issued[tok].user], old))
         => /\ last'.status = 400
            /\ users' = users
            /\ verify_auth_token(users', tok, now') = issued[tok].user]_vars

\* a change_password request was refused with 400 and a token verifies
C6_Witness ==
    /\ last.op = "change_password"
    /\ last.status = 400
    /\ \E tok \in Tokens : verify_auth_token(users, tok, now) # None

AdminSession == login \in DOMAIN users /\ users[login].user_type = "Admin"

\* C7: admin_delete_user of a user who is not an Admin removes, in its one
\* commit, that user and the entries with that user_id and nothing else;
\* of an Admin, it reports an error and leaves users and entries as they are.
C7_DeleteUser ==
    [][\A i \in 1..MaxId :
         (admin_delete_user(i) /\ AdminSession /\ i \in DOMAIN users)
         => IF users[i].user_type # "Admin"
            THEN /\ DOMAIN users' = DOMAIN users \ {i}
                 /\ \A j \in DOMAIN users' : users'[j] = users[j]
                 /\ DOMAIN entries' = {k \in DOMAIN entries : entries[k].user_id # i}
                 /\ \A k \in DOMAIN entries' : entries'[k] = entries[k]
            ELSE /\ last'.page = "error"
                 /\ users' = users
                 /\ entries' = entries]_vars

\* user 1 of fill_db was deleted with its two entries; user 2 and its
\* entry are still there
C7_Witness ==
    /\ last.op = "admin_delete_user"
    /\ last.page = "success"
    /\ 1 \notin DOMAIN users
    /\ 2 \in DOMAIN users
    /\ DOMAIN entries = {3}
    /\ entries[3].user_id = 2

\* C8: in every reachable state every entry's user_id is the id of a user.
C8_NoOrphanEntries ==
    \A k \in DOMAIN entries : entries[k].user_id \in DOMAIN users

\* the time a link of age a, in clock steps back from now, was signed
SigningTimes == {now - k * TickStep : k \in 0..(now \div TickStep)}

\* C9: a link signed for the confirmation email is an invalid link for
\* process_password_reset_token, a link signed for the password-reset email
\* is an invalid link for confirm_email, whatever the email and the signing
\* time, and neither request changes a user.
C9_SaltIsolation ==
    /\ [](\A e \in Emails, t \in SigningTimes :
            /\ loads(generate_confirmation_email(e, t), "password-reset-salt", 3600, now)
                 \in {"BadSignature", "SignatureExpired"}
            /\ loads(generate_password_reset_email(e, t), "email-confirmation-salt", 3600, now)
                 \in {"BadSignature", "SignatureExpired"})
    /\ [][/\ \A l \in Links, b \in BOOLEAN, p \in Passwords, s \in Salts :
               (/\ process_password_reset_token(l, b, p, s)
                /\ l = generate_confirmation_email(l.payload, l.ts))
               => (last'.page = "password_reset_invalid" /\ users' = users)
          /\ \A l \in Links :
               (confirm_email(l) /\ l = generate_password_reset_email(l.payload, l.ts))
               => (last'.page = "email_confirmation_invalid" /\ users' = users)]_vars

\* the confirmation link of an unconfirmed user, not yet an hour old, is in
\* the mailbox and the password reset has answered "invalid link"
C9_Witness ==
    /\ last.op = "process_password_reset_token"
    /\ last.page = "password_reset_invalid"
    /\ \E m \in mail :
          /\ m = generate_confirmation_email(m.payload, m.ts)
          /\ now - m.ts <= 3600
          /\ \E u \in DOMAIN users : users[u].email = m.payload /\ ~users[u].email_confirmed

\* C10: a link presented more than 3600 seconds after it was signed gets the
\* invalid-link page and no user changes; a link signed for the request,
\* presented up to 3600 seconds after, is not an invalid link (when the
\* user of a submitted password reset exists).
C10_MaxAge ==
    [][/\ \A l \in Links :
            /\ (confirm_email(l) /\ now - l.ts > 3600)
               => (last'.page = "email_confirmation_invalid" /\ users' = users)
            /\ (/\ confirm_email(l)
                /\ now - l.ts <= 3600
                /\ l = generate_confirmation_email(l.payload, l.ts))
               => last'.page # "email_confirmation_invalid"
       /\ \A l \in Links, b \in BOOLEAN, p \in Passwords, s \in Salts :
            /\ (process_password_reset_token(l, b, p, s) /\ now - l.ts > 3600)
               => (last'.page = "password_reset_invalid" /\ users' = users)
            /\ (/\ process_password_reset_token(l, b, p, s)
                /\ now - l.ts <= 3600
                /\ l = generate_password_reset_email(l.payload, l.ts)
                /\ EmailHeld(l.payload))
               => last'.page # "password_reset_invalid"]_vars

\* the confirmation link of an unconfirmed user is more than an hour old
\* and confirm_email has answered "invalid link"
C10_Witness ==
    /\ last.op = "confirm_email"
    /\ last.page = "email_confirmation_invalid"
    /\ \E m \in mail :
          /\ m = generate_confirmation_email(m.payload, m.ts)
          /\ now - m.ts > 3600
          /\ \E u \in DOMAIN users : users[u].email = m.payload /\ ~users[u].email_confirmed

\* C11: confirm_email with a valid, unexpired link of a user whose
\* email_confirmed is true answers with the already-confirmed page and leaves
\* the users table as it is: email_confirmed stays true and email_confirmed_on
\* keeps its value.
C11_AlreadyConfirmed ==
    [][\A l \in Links :
         (/\ confirm_email(l)
          /\ l = generate_confirmation_email(l.payload, l.ts)
          /\ now - l.ts <= 3600
          /\ \E u \in DOMAIN users : users[u].email = l.payload /\ users[u].email_confirmed)
         => /\ last'.page = "email_confirmation_duplicate"
            /\ users' = users
            /\ \A u \in DOMAIN users :
                 users[u].email = l.payload =>
                    /\ users'[u].email_confirmed
                    /\ users'[u].email_confirmed_on = users[u].email_confirmed_on]_vars

\* the user confirmed with the link earlier, presented it again later and
\* got the already-confirmed page; email_confirmed_on is the earlier time
C11_Witness ==
    /\ last.op = "confirm_email"
    /\ last.page = "email_confirmation_duplicate"
    /\ \E m \in mail \cap used :
          /\ now - m.ts <= 3600
          /\ \E u \in DOMAIN users :
                /\ users[u].email = m.payload
                /\ users[u].email_confirmed
                /\ users[u].email_confirmed_on < now

\* C12: a confirmation link confirms at most once: presenting a link that
\* confirm_email has already confirmed an address with changes no user,
\* whatever happened in between (admin_unconfirm_email included).
C12_ConfirmsOnce ==
    [][\A l \in Links : (confirm_email(l) /\ l \in used) => users' = users]_vars

Confirmed(email) ==
    \E u \in DOMAIN users : users[u].email = email /\ users[u].email_confirmed

\* C13: forgot_password sends a password-reset email only for the email of
\* an existing user whose email_confirmed is true when the request is made;
\* for an unknown email or an unconfirmed user it answers 400, sends nothing
\* and changes no state.
C13_ForgotPassword ==
    [][\A e \in UserEmails, d \in BOOLEAN :
         forgot_password(e, d) =>
            IF Confirmed(e)
            THEN /\ last'.status = 200
                 /\ mail' = send_email(generate_password_reset_email(e, now), d)
                 /\ users' = users
            ELSE /\ last'.status = 400
                 /\ mail' = mail
                 /\ <<now, users, entries, req, login, next_token, issued, revoked, used>>' =
                    <<now, users, entries, req, login, next_token, issued, revoked, used>>]_vars

\* every email forgot_password is asked about is that of a registered user
\* who is not confirmed; it has answered 400 and the mailbox holds no
\* password-reset link
C13_Witness ==
    /\ last.op = "forgot_password"
    /\ last.status = 400
    /\ \A e \in UserEmails : EmailHeld(e) /\ ~Confirmed(e)
    /\ \A m \in mail : m # generate_password_reset_email(m.payload, m.ts)

\* C14: when process_password_reset_token sets a new password, no bearer
\* token handed out before is one that verify_auth_token accepts, neither
\* before nor after the reset.
C14_ResetWithoutToken ==
    [][\A l \in Links, b \in BOOLEAN, s \in Salts :
         (/\ process_password_reset_token(l, b, "FlaskIsTheBest456", s)
          /\ last'.page = "password_updated")
         => \A tok \in Tokens :
               /\ verify_auth_token(users, tok, now) = None
               /\ verify_auth_token(users', tok, now) = None]_vars

\* the link is not one process_password_reset_token can act on: its
\* signature or age is refused, or no user holds its email
Unusable(l) ==
    \/ loads(l, "password-reset-salt", 3600, now) \in {"BadSignature", "SignatureExpired"}
    \/ ~EmailHeld(l.payload)

\* C15 as stated: process_password_reset_token with a link that is invalid,
\* expired or signed for an email no user holds renders the invalid-link
\* page, does not raise and changes no stored state.
C15_InvalidLink ==
    [][\A l \in Links, b \in BOOLEAN, s \in Salts :
         (process_password_reset_token(l, b, "FlaskIsTheBest456", s) /\ Unusable(l))
         => /\ last'.status = 200
            /\ last'.page = "password_reset_invalid"
            /\ <<users, entries, mail, login, next_token>>' =
               <<users, entries, mail, login, next_token>>]_vars

\* C15 amended: with an invalid or expired link, or with a submitted
\* password and a link signed for an email no user holds,
\* process_password_reset_token renders the invalid-link page; without a
\* submitted password and with such a signed link it renders the password
\* form; in all these cases it does not raise and changes no stored state.
C15_InvalidLinkOnSubmit ==
    [][\A l \in Links, b \in BOOLEAN, s \in Salts :
         (process_password_reset_token(l, b, "FlaskIsTheBest456", s) /\ Unusable(l))
         => /\ last'.status = 200
            /\ last'.page =
                 IF b \/ loads(l, "password-reset-salt", 3600, now)
                            \in {"BadSignature", "SignatureExpired"}
                 THEN "password_reset_invalid" ELSE "reset_password_with_token"
            /\ <<users, entries, mail, login, next_token>>' =
               <<users, entries, mail, login, next_token>>]_vars

\* the user asked for a reset link and was deleted; the link, still signed
\* and unexpired, was submitted with a password and got the invalid-link page
C15_Witness ==
    /\ last.op = "process_password_reset_token"
    /\ last.page = "password_reset_invalid"
    /\ \E m \in mail :
          /\ loads(m, "password-reset-salt", 3600, now) = m.payload
          /\ ~EmailHeld(m.payload)

\* C16: admin_confirm_email, admin_unconfirm_email, admin_change_password,
\* admin_revoke_token and admin_delete_user change a user or an entry only
\* when the session's user exists and is an Admin; with no session the
\* request is redirected to the login, with a session of another user it is
\* refused with 403; admin_login sets the session only to a user of that
\* email whose password is correct and whose user_type is Admin.
C16_AdminGate ==
    [][/\ \A i \in 1..MaxId :
            (/\ ~AdminSession
             /\ \/ admin_confirm_email(i)
                \/ admin_unconfirm_email(i)
                \/ admin_revoke_token(i)
                \/ admin_delete_user(i)
                \/ \E b \in BOOLEAN, p \in Passwords, s \in Salts :
                      admin_change_password(i, b, p, s))
            => /\ users' = users
               /\ entries' = entries
               /\ last'.status = IF login \in DOMAIN users THEN 403 ELSE 302
       /\ \A e \in Emails, p \in Passwords :
            admin_login(e, p) =>
               IF \E u \in DOMAIN users :
                     /\ users[u].email = e
                     /\ is_password_correct(users[u], p)
                     /\ users[u].user_type = "Admin"
               THEN login' \in DOMAIN users /\ users[login'].email = e
               ELSE login' = login]_vars

\* the session cookie names a user who is not an Admin and who owns
\* entries, and admin_delete_user has been refused with 403
C16_Witness ==
    /\ last.status = 403
    /\ last.op = "admin_delete_user"
    /\ login \in DOMAIN users
    /\ users[login].user_type = "User"
    /\ \E k \in DOMAIN entries : entries[k].user_id = login

\* C17: register answers 201 and the new row is in the users table before
\* the mail thread has run, and the thread, whether mail.send delivers or
\* fails, changes neither the users table nor the response; the row stays
\* while the thread has not run; forgot_password for a confirmed user
\* answers 200 in the same way.
C17_MailIndependence ==
    /\ [](\A w \in RaceWorkers :
            (/\ req[w].op = "send_email"
             /\ req[w].message = generate_confirmation_email(req[w].message.payload, req[w].message.ts))
            => EmailHeld(req[w].message.payload))
    /\ [][/\ \A w \in RaceWorkers, e \in UserEmails, s \in Salts :
               (register_thread(w, e, "FlaskIsAwesome123", s) /\ ~EmailHeld(e))
               => /\ last'.status = 201
                  /\ users' = Insert(users, NextId(users),
                                     User(e, "FlaskIsAwesome123", "User", s, now))
          /\ \A w \in RaceWorkers, e \in UserEmails :
               (forgot_password_thread(w, e) /\ Confirmed(e))
               => (last'.status = 200 /\ users' = users)
          /\ \A w \in RaceWorkers, d \in BOOLEAN :
               send_email_thread(w, d) => (users' = users /\ last' = last)]_vars

\* two users were registered with 201; the mail thread of one has failed
\* and that of the other has not run: nothing was delivered and both rows
\* are in the table
C17_Witness ==
    /\ last.op = "register"
    /\ last.status = 201
    /\ mail = {}
    /\ \A e \in UserEmails : EmailHeld(e)
    /\ Cardinality({w \in RaceWorkers : req[w].op = "send_email"}) = 1

\* C18: whatever updates are made of an entry, its created_on keeps the
\* value it got at creation, which is the time of creation; each
\* Entry.update sets last_edited_on to the time of the update and entry to
\* the new text.
C18_EntryUpdate ==
    /\ [](\A k \in DOMAIN entries : entries[k].created_on <= entries[k].last_edited_on)
    /\ [][/\ \A k \in DOMAIN entries :
               /\ k \in DOMAIN entries'
               /\ entries'[k].created_on = entries[k].created_on
          /\ \A k \in DOMAIN entries' \ DOMAIN entries :
               /\ now <= entries'[k].created_on
               /\ entries'[k].last_edited_on <= now'
          /\ \A t \in Tokens, k \in 1..MaxEntryId, x \in Texts :
               (update_journal_entry(t, k, x) /\ last'.status = 200)
               => /\ entries'[k].entry = x
                  /\ entries'[k].last_edited_on = now
                  /\ entries'[k].created_on = entries[k].created_on
                  /\ entries'[k].user_id = entries[k].user_id]_vars

\* an entry created at time 0 with one text holds the other text after an
\* update at the latest time: created_on is still 0
C18_Witness ==
    /\ last.op = "update_journal_entry"
    /\ last.status = 200
    /\ now = MaxTokenTime
    /\ \E k \in DOMAIN entries :
          /\ entries[k].created_on = 0
          /\ entries[k].last_edited_on = now
          /\ entries[k].entry = "Had tea"

\* C19: no operation of the users API or of the admin console changes the
\* user_type of a user that exists before and after it.
C19_UserTypeFixed ==
    [][\A i \in DOMAIN users \cap DOMAIN users' :
          users'[i].user_type = users[i].user_type]_vars

\* a plain user on whom admin_confirm_email has just run, who holds a token
\* that was revoked and whose password was changed, is still a plain user
C19_Witness ==
    \E u \in DOMAIN users :
       /\ users[u].user_type = "User"
       /\ users[u].email_confirmed
       /\ users[u].auth_token # None
       /\ \E r \in revoked : r.token = users[u].auth_token
       /\ is_password_correct(users[u], "FlaskIsTheBest456")
       /\ last.op = "admin_confirm_email"
       /\ last.page = "admin_list_users"

\* C20: in every interleaving of a get_auth_token request and a
\* change_password request of one user, the row ends as after one request
\* and then the other; in particular a token that get_auth_token hands out
\* is accepted by verify_auth_token only if the password the request was
\* authenticated with is the user's password at that moment: no token
\* obtained with the old password is accepted once change_password is done.
C20_NoLostUpdate ==
    [][\A w \in RaceWorkers :
         (/\ get_auth_token_commit(w)
          /\ verify_auth_token(users', next_token', now) # None)
         => is_password_correct(users'[req[w].id], req[w].password_plaintext)]_vars

\* C21: the demo journal API is stateless: after any sequence of demo
\* requests GET /demo/journal/ returns the list the module was loaded with,
\* with the same ids, texts and times.
C21_DemoStateless == demo_entries = demo_entries_loaded

\* C22: confirm_email is total: for every link and in every reachable
\* state, also when the user of a signed, unexpired link has been deleted,
\* it ends with one of the three pages (invalid or expired link, already
\* confirmed, confirmed) and not with an unhandled error.
C22_ConfirmTotal ==
    [][\A l \in Links :
          confirm_email(l) =>
             /\ last'.status = 200
             /\ last'.page \in {"email_confirmation_invalid", "email_confirmation_duplicate",
                                "email_confirmed"}]_vars

\* C23: every newly created entry has created_on equal to last_edited_on,
\* and in every reachable state every entry has created_on <= last_edited_on.
C23_CreatedEqualsEdited ==
    /\ [](\A k \in DOMAIN entries : entries[k].created_on <= entries[k].last_edited_on)
    /\ [][\A k \in DOMAIN entries' \ DOMAIN entries :
             entries'[k].created_on = entries'[k].last_edited_on]_vars

\* C24: no request to the users API creates an Admin: a row that register
\* adds has user_type User, email_confirmed false and no auth_token and no
\* auth_token_expiration, and a row is an Admin's only when the
\* create_admin_user command has added it as one.
C24_NoAdminByRequest ==
    [][/\ \A e \in UserEmails, s \in Salts :
            register(e, "FlaskIsAwesome123", s, TRUE) =>
               \A i \in DOMAIN users' \ DOMAIN users :
                  /\ users'[i].user_type = "User"
                  /\ users'[i].email_confirmed = FALSE
                  /\ users'[i].auth_token = None
                  /\ users'[i].auth_token_expiration = None
       /\ \A i \in DOMAIN users' :
            (/\ users'[i].user_type = "Admin"
             /\ i \notin DOMAIN users \/ users[i].user_type # "Admin")
            => /\ last'.op = "create"
               /\ i \notin DOMAIN users]_vars

\* register has just added a plain, unconfirmed user without a token,
\* beside an Admin who holds a token and a user who is confirmed
C24_Witness ==
    /\ last.op = "register"
    /\ last.status = 201
    /\ \E a \in DOMAIN users : users[a].user_type = "Admin" /\ users[a].auth_token # None
    /\ \E u \in DOMAIN users : users[u].user_type = "User" /\ users[u].email_confirmed
    /\ LET n == SetMax(DOMAIN users)
       IN  /\ users[n].user_type = "User"
           /\ ~users[n].email_confirmed
           /\ users[n].auth_token = None
           /\ users[n].auth_token_expiration = None

\* C25: in every reachable state every user's email_confirmed is true if
\* and only if the user's email_confirmed_on is not null.
C25_ConfirmedIffConfirmedOn ==
    \A u \in DOMAIN users : users[u].email_confirmed <=> users[u].email_confirmed_on # None

\* C26: in every reachable state a user's auth_token is null if and only if
\* the user's auth_token_expiration is null: verify_auth_token finds no user
\* by a token whose expiration is missing, and a user who never obtained a
\* token has no expiration, also after admin_revoke_token or change_password.
C26_TokenIffExpiration ==
    \A u \in DOMAIN users :
       users[u].auth_token = None <=> users[u].auth_token_expiration = None

====
